---- MODULE Spec2Model ----
(***************************************************************************)
(* Model of "pydantic tutorial/E_commerce_system.py": the OrderItem,       *)
(* ShippingAddress and Order models, their field validators, their         *)
(* mode='after' model validators, calculate_total and get_order_summary.   *)
(*                                                                         *)
(* Representation.                                                         *)
(*   - A Python str that a validator inspects character by character is a  *)
(*     sequence of one-character strings; other strs are TLA+ strings.     *)
(*   - Keyword arguments are a function whose DOMAIN is the set of         *)
(*     supplied keywords, so "omitted" is distinct from every value.       *)
(*   - float amounts are exact decimals in fixed point: the raw unit_price *)
(*     and shipping_cost are in mills (1/1000 of a dollar); a value that   *)
(*     went through round(x, 2) is in cents; discount_percent and tax_rate *)
(*     are whole percents.  round(x, 2) is round2: nearest cent, ties to   *)
(*     even.  Binary floating-point representation error is not modelled.  *)
(***************************************************************************)
EXTENDS Integers, Sequences, FiniteSets, TLC

\* cart         the OrderItems the caller has constructed, in order
\* address      the ShippingAddress the caller has constructed, or None
\* order        the Order the caller has obtained from Order(...), or None
\* pc           "idle"; the constructor that stands between its field phase
\*              and its mode='after' validator; "failed" once a constructor
\*              has raised, which ends the caller's try block
\* self         the instance under construction; after a raise, the
\*              discarded candidate as the validator left it
\* call         the last constructor call: its class and keyword arguments
\* err          the messages of the ValidationError the last call raised
\* evaluated    whether the last call evaluated its mode='after' validator
\* summary      what the last get_order_summary() returned, or None
\* prev_summary what the call before it returned, or None
VARIABLES cart, address, order, pc, self, call, err, evaluated,
          summary, prev_summary

vars == <<cart, address, order, pc, self, call, err, evaluated,
          summary, prev_summary>>

\* Python's None, and the absence of a caller-held object.
None == [none |-> TRUE]

----------------------------------------------------------------------------
\* Bounds of the model.

\* The caller builds at most MaxItems OrderItems before constructing the Order.
MaxItems == 2

----------------------------------------------------------------------------
\* Constants of the program.

ProductIdLen == 10
MaxQuantity == 1000
\* 1000000 dollars, in mills.
MaxPriceMills == 1000000000
FoodLimit == 100
OrderIdLen == 18
MaxOrderItems == 50
\* 100 dollars, in cents.
FreeShippingCents == 10000
\* 9.99 dollars, in mills.
FallbackShippingMills == 9990
\* 10 dollars, in cents.
MinOrderCents == 1000
\* 50000 dollars, in cents.
MaxOrderCents == 5000000
MaxDiscountPercent == 100
\* le=0.2, in percent.
MaxTaxPercent == 20
\* default=0.08, in percent.
DefaultTaxPercent == 8
ZipShortLen == 5
ZipLongLen == 10
StateLen == 2

----------------------------------------------------------------------------
\* Python built-ins used by the validators.

DigitChars == {"0", "1", "2", "3", "4", "5", "6", "7", "8", "9"}

UpperLetters == <<"A", "B", "C", "D", "E", "F", "G", "H", "I", "J", "K", "L", "M",
                  "N", "O", "P", "Q", "R", "S", "T", "U", "V", "W", "X", "Y", "Z">>

LowerLetters == <<"a", "b", "c", "d", "e", "f", "g", "h", "i", "j", "k", "l", "m",
                  "n", "o", "p", "q", "r", "s", "t", "u", "v", "w", "x", "y", "z">>

Range(s) == {s[i] : i \in DOMAIN s}

AlphaChars == Range(UpperLetters) \cup Range(LowerLetters)

\* str.isdigit(): non-empty and every character a digit.
isdigit(v) == Len(v) > 0 /\ \A i \in 1..Len(v) : v[i] \in DigitChars

\* str.isalpha(): non-empty and every character a letter.
isalpha(v) == Len(v) > 0 /\ \A i \in 1..Len(v) : v[i] \in AlphaChars

IndexIn(c, s) == CHOOSE i \in DOMAIN s : s[i] = c

upper_char(c) == IF c \in Range(LowerLetters) THEN UpperLetters[IndexIn(c, LowerLetters)] ELSE c

lower_char(c) == IF c \in Range(UpperLetters) THEN LowerLetters[IndexIn(c, UpperLetters)] ELSE c

\* str.upper() and str.lower().
upper(v) == [i \in 1..Len(v) |-> upper_char(v[i])]

lower(v) == [i \in 1..Len(v) |-> lower_char(v[i])]

\* str.startswith(prefix).
startswith(v, prefix) ==
    /\ Len(v) >= Len(prefix)
    /\ \A i \in 1..Len(prefix) : v[i] = prefix[i]

\* c in v.
contains(v, c) == \E i \in 1..Len(v) : v[i] = c

\* v.split(c)[1]: the text between the first and the second occurrence of c
\* (to the end when there is no second one); v must contain c.
split_1(v, c) ==
    LET first == CHOOSE i \in 1..Len(v) : v[i] = c /\ \A j \in 1..(i - 1) : v[j] # c
        rest  == SubSeq(v, first + 1, Len(v))
        stops == {i \in 1..Len(rest) : rest[i] = c}
        stop  == IF stops = {} THEN Len(rest) + 1
                 ELSE CHOOSE i \in stops : \A j \in stops : i <= j
    IN SubSeq(rest, 1, stop - 1)

\* str.strip(): leading and trailing blanks removed.
strip(v) ==
    LET keep == {i \in 1..Len(v) : v[i] # " "}
    IN IF keep = {} THEN <<>>
       ELSE LET lo == CHOOSE i \in keep : \A j \in keep : i <= j
                hi == CHOOSE i \in keep : \A j \in keep : j <= i
            IN SubSeq(v, lo, hi)

\* round(n / d, 0) for d > 0: the nearest integer, ties to the even one.
round_half_even(n, d) ==
    LET q == n \div d
        r == n % d
    IN IF 2 * r < d THEN q
       ELSE IF 2 * r > d THEN q + 1
       ELSE IF q % 2 = 0 THEN q ELSE q + 1

\* round(x, 2) for x = n / d cents: the result in cents.
round2(n, d) == round_half_even(n, d)

\* A validator's outcome: the value it returns, or the ValueError it raises.
Returns(v) == [ok |-> TRUE, value |-> v, msg |-> ""]

Raises(m) == [ok |-> FALSE, value |-> None, msg |-> m]

----------------------------------------------------------------------------
\* class OrderItem(BaseModel)

\* product_id: str; product_name: str; category: ProductCategory;
\* quantity: int; unit_price: float; discount_percent: float = Field(default=0, ...)
OrderItemFields ==
    <<"product_id", "product_name", "category", "quantity", "unit_price", "discount_percent">>

OrderItemDefaults == [discount_percent |-> 0]

ProdPrefix == <<"P", "R", "O", "D", "-">>

\* Ensure product ID follows company format: PROD-XXXXX
validate_product_id(v) ==
    IF ~startswith(v, ProdPrefix) \/ Len(v) # ProductIdLen
    THEN Raises("Product ID must be in format PROD-XXXXX")
    ELSE Returns(v)

quantity_must_be_positive(v) ==
    IF v <= 0 THEN Raises("Quantity must be at least 1")
    ELSE IF v > MaxQuantity THEN Raises("Maximum quantity per item is 1000")
    ELSE Returns(v)

\* v in mills; the value returned is round(v, 2), in cents.
price_must_be_valid(v) ==
    IF v <= 0 THEN Raises("Price must be positive")
    ELSE IF v > MaxPriceMills THEN Raises("Price exceeds maximum allowed")
    ELSE Returns(round2(v, 10))

\* Field(default=0, ge=0, le=100)
discount_percent_constraints(v) ==
    IF v < 0 THEN Raises("Input should be greater than or equal to 0")
    ELSE IF v > MaxDiscountPercent THEN Raises("Input should be less than or equal to 100")
    ELSE Returns(v)

\* validate_food_expiry with the ceiling exclusive (>= for >);
\* C7_Quantity fails against it at a food quantity of exactly 100.
validate_food_expiry_from_100(this) ==
    IF this.category = "food" /\ this.quantity >= FoodLimit
    THEN [raised |-> TRUE, msg |-> "Food orders limited to 100 units for freshness", self |-> this]
    ELSE [raised |-> FALSE, msg |-> "", self |-> this]

\* @model_validator(mode='after'): Food items can't have more than 100 units.
validate_food_expiry(this) ==
    IF this.category = "food" /\ this.quantity > FoodLimit
    THEN [raised |-> TRUE, msg |-> "Food orders limited to 100 units for freshness", self |-> this]
    ELSE [raised |-> FALSE, msg |-> "", self |-> this]

\* Total price after discount, in cents:
\* round(quantity * unit_price - quantity * unit_price * (discount_percent / 100), 2).
calculate_total(this) ==
    LET subtotal == this.quantity * this.unit_price
    IN round2(subtotal * 100 - subtotal * this.discount_percent, 100)

----------------------------------------------------------------------------
\* class ShippingAddress(BaseModel)

\* street: str; city: str; state: str; zip_code: str; country: str = "USA"
ShippingAddressFields == <<"street", "city", "state", "zip_code", "country">>

ShippingAddressDefaults == [country |-> "USA"]

\* dict.get(key, default) on info.data, the fields validated so far.
get(data, key, default) == IF key \in DOMAIN data THEN data[key] ELSE default

\* Validate ZIP code format based on country.
validate_zip_code(v, data) ==
    LET country == get(data, "country", "USA")
    IN IF country = "USA"
       THEN IF /\ ~(isdigit(v) /\ Len(v) = ZipShortLen)
               /\ ~(Len(v) = ZipLongLen /\ v[6] = "-")
            THEN Raises("US ZIP code must be 5 digits or 5+4 format")
            ELSE Returns(v)
       ELSE Returns(v)

\* Ensure state is 2-letter code.
validate_state(v) ==
    IF Len(v) # StateLen \/ ~isalpha(v)
    THEN Raises("State must be 2-letter code (e.g., CA, NY)")
    ELSE Returns(upper(v))

----------------------------------------------------------------------------
\* class Order(BaseModel)

\* order_id: str; customer_email: str; items: List[OrderItem];
\* shipping_address: ShippingAddress; status: OrderStatus = OrderStatus.PENDING;
\* created_at: datetime = Field(default_factory=datetime.now);
\* shipping_cost: float = 0; tax_rate: float = Field(default=0.08, ge=0, le=0.2)
OrderFields ==
    <<"order_id", "customer_email", "items", "shipping_address", "status",
      "created_at", "shipping_cost", "tax_rate">>

OrderDefaults ==
    [status |-> "pending", created_at |-> "now", shipping_cost |-> 0,
     tax_rate |-> DefaultTaxPercent]

OrdPrefix == <<"O", "R", "D", "-">>

\* Order ID format: ORD-YYYYMMDD-XXXXX
validate_order_id(v) ==
    IF ~startswith(v, OrdPrefix) \/ Len(v) # OrderIdLen
    THEN Raises("Order ID must be format: ORD-YYYYMMDD-XXXXX")
    ELSE Returns(v)

\* Validate email and normalize.
validate_email(v) ==
    IF ~contains(v, "@") \/ ~contains(split_1(v, "@"), ".")
    THEN Raises("Invalid email format")
    ELSE Returns(strip(lower(v)))

\* Ensure order has at least one item.
validate_items_not_empty(v) ==
    IF v = <<>> \/ Len(v) = 0 THEN Raises("Order must contain at least one item")
    ELSE IF Len(v) > MaxOrderItems THEN Raises("Maximum 50 items per order")
    ELSE Returns(v)

\* Field(default=0.08, ge=0, le=0.2)
tax_rate_constraints(v) ==
    IF v < 0 THEN Raises("Input should be greater than or equal to 0")
    ELSE IF v > MaxTaxPercent THEN Raises("Input should be less than or equal to 0.2")
    ELSE Returns(v)

\* sum(item.calculate_total() for item in items), in cents.
RECURSIVE sum_totals(_)
sum_totals(items) ==
    IF items = <<>> THEN 0
    ELSE calculate_total(Head(items)) + sum_totals(Tail(items))

hasattr(this, name) == name \in DOMAIN this

\* assign_shipping_cost with the free-shipping threshold exclusive (> for >=);
\* C1_ShippingCost fails against it at a subtotal of exactly 100.00.
assign_shipping_cost_above_100(this, subtotal) ==
    IF subtotal > FreeShippingCents
    THEN [this EXCEPT !["shipping_cost"] = 0]
    ELSE IF ~hasattr(this, "shipping_cost") \/ this.shipping_cost = 0
    THEN [this EXCEPT !["shipping_cost"] = FallbackShippingMills]
    ELSE this

\* The shipping_cost (mills) the validator leaves on the candidate.
\* Free shipping for orders over $100.
assign_shipping_cost(this, subtotal) ==
    IF subtotal >= FreeShippingCents
    THEN [this EXCEPT !["shipping_cost"] = 0]
    ELSE IF ~hasattr(this, "shipping_cost") \/ this.shipping_cost = 0
    THEN [this EXCEPT !["shipping_cost"] = FallbackShippingMills]
    ELSE this

\* check_order_amount with the minimum exclusive (<= for <);
\* C4_SubtotalRange fails against it at a subtotal of exactly 10.00.
check_order_amount_above_10(subtotal) ==
    IF subtotal <= MinOrderCents THEN "Minimum order amount is $10"
    ELSE IF subtotal > MaxOrderCents
    THEN "Maximum order amount is $50,000. Please split into multiple orders."
    ELSE ""

\* The ValueError the validator raises for the subtotal, "" when it raises none.
check_order_amount(subtotal) ==
    IF subtotal < MinOrderCents THEN "Minimum order amount is $10"
    ELSE IF subtotal > MaxOrderCents
    THEN "Maximum order amount is $50,000. Please split into multiple orders."
    ELSE ""

\* calculate_and_validate_totals returning self before the minimum check;
\* C3_AllOrNothing fails against it: an Order below the minimum is returned.
calculate_and_validate_totals_no_minimum(this) ==
    LET subtotal == sum_totals(this.items)
        after    == assign_shipping_cost(this, subtotal)
        msg      == IF subtotal > MaxOrderCents
                    THEN "Maximum order amount is $50,000. Please split into multiple orders."
                    ELSE ""
    IN [raised |-> msg # "", msg |-> msg, self |-> after]

\* @model_validator(mode='after'): calculate totals and apply business rules.
\* self is the candidate after the assignment to shipping_cost, raised or not.
calculate_and_validate_totals(this) ==
    LET subtotal == sum_totals(this.items)
        after    == assign_shipping_cost(this, subtotal)
        msg      == check_order_amount(subtotal)
    IN [raised |-> msg # "", msg |-> msg, self |-> after]

\* The exact item totals, in 1/100 of a cent, summed without rounding.
RECURSIVE sum_unrounded(_)
sum_unrounded(items) ==
    IF items = <<>> THEN 0
    ELSE LET item == Head(items)
         IN item.quantity * item.unit_price * (100 - item.discount_percent)
                + sum_unrounded(Tail(items))

\* get_order_summary rounding the sum of the exact item totals instead of
\* summing the rounded ones; C8_Summary fails against it.
get_order_summary_rounds_sum(this) ==
    LET subtotal   == round2(sum_unrounded(this.items), 100)
        tax_amount == round2(subtotal * this.tax_rate, 100)
        total      == round2(10 * subtotal + 10 * tax_amount + this.shipping_cost, 10)
    IN [ret  |-> [order_id       |-> this.order_id,
                  customer_email |-> this.customer_email,
                  item_count     |-> Len(this.items),
                  subtotal       |-> subtotal,
                  tax            |-> tax_amount,
                  shipping       |-> this.shipping_cost,
                  total          |-> total,
                  status         |-> this.status],
        self |-> this]

\* get_order_summary storing the total it computed back into shipping_cost;
\* C9_PureSummary fails against it.
get_order_summary_stores_total(this) ==
    LET subtotal   == sum_totals(this.items)
        tax_amount == round2(subtotal * this.tax_rate, 100)
        total      == round2(10 * subtotal + 10 * tax_amount + this.shipping_cost, 10)
    IN [ret  |-> [order_id       |-> this.order_id,
                  customer_email |-> this.customer_email,
                  item_count     |-> Len(this.items),
                  subtotal       |-> subtotal,
                  tax            |-> tax_amount,
                  shipping       |-> this.shipping_cost,
                  total          |-> total,
                  status         |-> this.status],
        self |-> [this EXCEPT !["shipping_cost"] = 10 * total]]

\* Generate order summary with all calculations: the dict returned, and self
\* as the call leaves it.  subtotal, tax and total in cents, shipping in mills.
get_order_summary(this) ==
    LET subtotal   == sum_totals(this.items)
        tax_amount == round2(subtotal * this.tax_rate, 100)
        total      == round2(10 * subtotal + 10 * tax_amount + this.shipping_cost, 10)
    IN [ret  |-> [order_id       |-> this.order_id,
                  customer_email |-> this.customer_email,
                  item_count     |-> Len(this.items),
                  subtotal       |-> subtotal,
                  tax            |-> tax_amount,
                  shipping       |-> this.shipping_cost,
                  total          |-> total,
                  status         |-> this.status],
        self |-> this]

----------------------------------------------------------------------------
\* BaseModel.__init__(**kwargs): the fields are validated in declaration
\* order, every failure is collected, and info.data holds the fields that
\* have been validated so far.

Fields(cls) ==
    CASE cls = "OrderItem"       -> OrderItemFields
      [] cls = "ShippingAddress" -> ShippingAddressFields
      [] cls = "Order"           -> OrderFields

Defaults(cls) ==
    CASE cls = "OrderItem"       -> OrderItemDefaults
      [] cls = "ShippingAddress" -> ShippingAddressDefaults
      [] cls = "Order"           -> OrderDefaults

\* The @field_validator (or Field constraint) attached to field f of cls.
field_validator(cls, f, v, data) ==
    CASE cls = "OrderItem" /\ f = "product_id"       -> validate_product_id(v)
      [] cls = "OrderItem" /\ f = "quantity"         -> quantity_must_be_positive(v)
      [] cls = "OrderItem" /\ f = "unit_price"       -> price_must_be_valid(v)
      [] cls = "OrderItem" /\ f = "discount_percent" -> discount_percent_constraints(v)
      [] cls = "ShippingAddress" /\ f = "zip_code"   -> validate_zip_code(v, data)
      [] cls = "ShippingAddress" /\ f = "state"      -> validate_state(v)
      [] cls = "Order" /\ f = "order_id"             -> validate_order_id(v)
      [] cls = "Order" /\ f = "customer_email"       -> validate_email(v)
      [] cls = "Order" /\ f = "items"                -> validate_items_not_empty(v)
      [] cls = "Order" /\ f = "tax_rate"             -> tax_rate_constraints(v)
      [] OTHER                                       -> Returns(v)

\* Validates fields (a suffix of the declaration order) against kwargs:
\* data maps the fields validated so far to their values, errors lists the
\* messages raised so far.
RECURSIVE validate_fields(_, _, _, _, _)
validate_fields(cls, fields, kwargs, data, errors) ==
    IF fields = <<>> THEN [data |-> data, errors |-> errors]
    ELSE LET f == Head(fields)
         IN IF f \notin DOMAIN kwargs
            THEN IF f \in DOMAIN Defaults(cls)
                 THEN validate_fields(cls, Tail(fields), kwargs,
                                      data @@ (f :> Defaults(cls)[f]), errors)
                 ELSE validate_fields(cls, Tail(fields), kwargs, data,
                                      Append(errors, "Field required"))
            ELSE LET r == field_validator(cls, f, kwargs[f], data)
                 IN IF r.ok
                    THEN validate_fields(cls, Tail(fields), kwargs,
                                         data @@ (f :> r.value), errors)
                    ELSE validate_fields(cls, Tail(fields), kwargs, data,
                                         Append(errors, r.msg))

\* The field phase of cls(**kwargs).
validate_model_fields(cls, kwargs) == validate_fields(cls, Fields(cls), kwargs, <<>>, <<>>)

\* A model validator that runs whatever the field phase found, as a
\* mode='before' one would; C6_FieldsBeforeModel fails against it.
runs_validator_regardless(r) == TRUE

\* A mode='after' model validator runs on the assembled instance, and only
\* when no field failed.
runs_after_validator(r) == r.errors = <<>>

----------------------------------------------------------------------------
\* The keyword arguments the caller passes.

GoodProductId == <<"P", "R", "O", "D", "-", "1", "2", "3", "4", "5">>

BadProductId == <<"I", "N", "V", "A", "L", "I", "D">>

ItemKw(pid, cat, q, price) ==
    [product_id |-> pid, product_name |-> "item", category |-> cat,
     quantity |-> q, unit_price |-> price]

ItemKwDiscount(pid, cat, q, price, disc) ==
    [product_id |-> pid, product_name |-> "item", category |-> cat,
     quantity |-> q, unit_price |-> price, discount_percent |-> disc]

\* Quantities around 1, 100 and 1000, at 50.00 each, food and not food.
QuantityInputs ==
    {ItemKw(GoodProductId, "food", q, 50000) : q \in {0, 1, 100, 101, 150, 1000, 1001}}
        \cup {ItemKw(GoodProductId, "books", q, 50000) : q \in {101, 150, 1000, 1001}}

\* One book at prices around 0, 10.00, 100.00 and 1000000.00 (in mills).
PriceInputs ==
    {ItemKw(GoodProductId, "books", 1, price) :
        price \in {0, 2994, 9996, 99990, 100000, 1000000010}}

\* Discounted items, a discount out of range, and 1000 items at 50.01.
DiscountInputs ==
    { ItemKwDiscount(GoodProductId, "electronics", 1, 999990, 10),
      ItemKwDiscount(GoodProductId, "electronics", 2, 29990, 5),
      ItemKwDiscount(GoodProductId, "clothing", 1, 10130, 33),
      ItemKwDiscount(GoodProductId, "clothing", 1, 50000, 101),
      ItemKwDiscount(GoodProductId, "clothing", 1, 50000, 0 - 1),
      ItemKwDiscount(GoodProductId, "books", 1000, 50010, 0) }

ItemInputs ==
    QuantityInputs \cup PriceInputs \cup DiscountInputs
        \cup {ItemKw(BadProductId, "electronics", 1, 79990)}

ZipInputs ==
    { <<"9", "4", "1", "0", "2">>,
      <<"9", "4", "1", "0", "2", "-", "1", "2", "3", "4">>,
      <<"a", "b", "c", "d", "e", "-", "f", "g", "h", "i">>,
      <<"1", "2", "3", "4", "5", "6", "7", "8", "9", "0">>,
      <<"K", "1", "A", " ", "0", "B", "1">>,
      <<"1", "2", "3", "4">>,
      <<"9", "4", "1", "0", "a">> }

StateInputs == { <<"c", "a">>, <<"C", "A", "L">>, <<"1", "2">> }

AddressKw(st, zip) ==
    [street |-> "123 Main St", city |-> "San Francisco", state |-> st, zip_code |-> zip]

AddressKwCountry(st, zip, country) ==
    [street |-> "123 Main St", city |-> "San Francisco", state |-> st, zip_code |-> zip,
     country |-> country]

AddressInputs ==
    {AddressKw(st, zip) : st \in StateInputs, zip \in ZipInputs}
        \cup {AddressKwCountry(<<"c", "a">>, zip, country) :
                 zip \in { <<"9", "4", "1", "0", "2">>, <<"K", "1", "A", " ", "0", "B", "1">> },
                 country \in {"USA", "Canada"}}

GoodOrderId ==
    <<"O", "R", "D", "-", "2", "0", "2", "4", "0", "1", "2", "9", "-",
      "0", "0", "0", "0", "1">>

BadOrderId == <<"O", "R", "D", "-", "1">>

GoodEmail == <<" ", "A", "l", "@", "e", "x", ".", "c", "o", "m", " ">>

\* The order's own keyword arguments; items and shipping_address are the
\* caller's cart and address.  shipping_cost in mills, tax_rate in percent.
OrderOwnInputs ==
    {[order_id |-> GoodOrderId, customer_email |-> GoodEmail]}
    \cup {[order_id |-> GoodOrderId, customer_email |-> GoodEmail, shipping_cost |-> s] :
             s \in {0, 5004, 0 - 5000}}
    \cup {[order_id |-> GoodOrderId, customer_email |-> GoodEmail, tax_rate |-> t] :
             t \in {0 - 1, 0, 20, 21}}
    \cup {[order_id |-> GoodOrderId, customer_email |-> GoodEmail, tax_rate |-> 20,
           shipping_cost |-> 5004]}
    \cup {[order_id |-> BadOrderId, customer_email |-> GoodEmail]}
    \cup {[order_id |-> GoodOrderId, customer_email |-> e] :
             e \in { <<"a", "l", ".", "c", "o", "m">>, <<"a", "l", "@", "e", "x">>,
                     <<"a", "@", "b", "@", "c", ".", "d">> }}

----------------------------------------------------------------------------
\* The caller, as in the examples: inside one try block it evaluates
\* Order(..., items=[OrderItem(...), ...], shipping_address=ShippingAddress(...)),
\* that is the items left to right, then the address, then the Order, and
\* reads the summary of the Order it obtained.  A constructor that raises
\* ends the try block.

Init ==
    /\ cart = <<>>
    /\ address = None
    /\ order = None
    /\ pc = "idle"
    /\ self = None
    /\ call = None
    /\ err = <<>>
    /\ evaluated = FALSE
    /\ summary = None
    /\ prev_summary = None

\* OrderItem(**kw), up to the end of the field phase.
OrderItem_init(kw) ==
    /\ pc = "idle"
    /\ address = None
    /\ Len(cart) < MaxItems
    /\ LET r == validate_model_fields("OrderItem", kw)
       IN IF runs_after_validator(r)
          THEN /\ pc' = "OrderItem"
               /\ self' = r.data
               /\ err' = <<>>
          ELSE /\ pc' = "failed"
               /\ self' = None
               /\ err' = r.errors
    /\ call' = [cls |-> "OrderItem", kwargs |-> kw]
    /\ evaluated' = FALSE
    /\ UNCHANGED <<cart, address, order, summary, prev_summary>>

\* validate_food_expiry on the candidate, and the constructor's return or raise.
OrderItem_after ==
    /\ pc = "OrderItem"
    /\ LET v == validate_food_expiry(self)
       IN IF v.raised
          THEN /\ err' = <<v.msg>>
               /\ self' = v.self
               /\ cart' = cart
               /\ pc' = "failed"
          ELSE /\ err' = <<>>
               /\ self' = None
               /\ cart' = Append(cart, v.self)
               /\ pc' = "idle"
    /\ evaluated' = TRUE
    /\ UNCHANGED <<address, order, call, summary, prev_summary>>

\* ShippingAddress(**kw): the class has no model validator.
ShippingAddress_init(kw) ==
    /\ pc = "idle"
    /\ address = None
    /\ LET r == validate_model_fields("ShippingAddress", kw)
       IN IF r.errors = <<>>
          THEN /\ address' = r.data
               /\ err' = <<>>
               /\ pc' = "idle"
          ELSE /\ address' = address
               /\ err' = r.errors
               /\ pc' = "failed"
    /\ self' = None
    /\ call' = [cls |-> "ShippingAddress", kwargs |-> kw]
    /\ evaluated' = FALSE
    /\ UNCHANGED <<cart, order, summary, prev_summary>>

\* Order(items=cart, shipping_address=address, **kw), up to the end of the
\* field phase.
Order_init(kw) ==
    /\ pc = "idle"
    /\ order = None
    /\ address # None
    /\ LET kwargs == kw @@ [items |-> cart, shipping_address |-> address]
           r      == validate_model_fields("Order", kwargs)
       IN /\ IF runs_after_validator(r)
             THEN /\ pc' = "Order"
                  /\ self' = r.data
                  /\ err' = <<>>
             ELSE /\ pc' = "failed"
                  /\ self' = None
                  /\ err' = r.errors
          /\ call' = [cls |-> "Order", kwargs |-> kwargs]
    /\ evaluated' = FALSE
    /\ UNCHANGED <<cart, address, order, summary, prev_summary>>

\* calculate_and_validate_totals on the candidate, and the constructor's
\* return or raise.
Order_after ==
    /\ pc = "Order"
    /\ LET v == calculate_and_validate_totals(self)
       IN IF v.raised
          THEN /\ err' = <<v.msg>>
               /\ self' = v.self
               /\ order' = None
               /\ pc' = "failed"
          ELSE /\ err' = <<>>
               /\ self' = None
               /\ order' = v.self
               /\ pc' = "idle"
    /\ evaluated' = TRUE
    /\ UNCHANGED <<cart, address, call, summary, prev_summary>>

\* order.get_order_summary()
Summarize ==
    /\ pc = "idle"
    /\ order # None
    /\ LET r == get_order_summary(order)
       IN /\ summary' = r.ret
          /\ prev_summary' = summary
          /\ order' = r.self
    /\ UNCHANGED <<cart, address, pc, self, call, err, evaluated>>

Next ==
    \/ \E kw \in ItemInputs : OrderItem_init(kw)
    \/ OrderItem_after
    \/ \E kw \in AddressInputs : ShippingAddress_init(kw)
    \/ \E kw \in OrderOwnInputs : Order_init(kw)
    \/ Order_after
    \/ Summarize

Spec == Init /\ [][Next]_vars

----------------------------------------------------------------------------
\* Vocabulary of the properties.

\* c is n / d (d > 0) rounded to the nearest integer, ties to the even one.
IsNearest(c, n, d) ==
    LET diff == IF c * d >= n THEN c * d - n ELSE n - c * d
    IN /\ 2 * diff <= d
       /\ 2 * diff = d => c % 2 = 0

Nearest(n, d) == CHOOSE c \in (n \div d)..((n \div d) + 1) : IsNearest(c, n, d)

\* quantity * unit_price * (1 - discount_percent / 100), rounded to cents.
ItemTotalRule(item) ==
    Nearest(item.quantity * item.unit_price * (100 - item.discount_percent), 100)

RECURSIVE SumOfItemTotals(_)
SumOfItemTotals(items) ==
    IF items = <<>> THEN 0
    ELSE ItemTotalRule(Head(items)) + SumOfItemTotals(Tail(items))

CallOf(cls) == call # None /\ call.cls = cls

Supplied(kw, f) == f \in DOMAIN kw

MinimumMsg == "Minimum order amount is $10"

MaximumMsg == "Maximum order amount is $50,000. Please split into multiple orders."

FoodMsg == "Food orders limited to 100 units for freshness"

ZipMsg == "US ZIP code must be 5 digits or 5+4 format"

EmailMsg == "Invalid email format"

\* The field rules of OrderItem, on the keyword arguments.
ProductIdRule(v) == Len(v) = 10 /\ SubSeq(v, 1, 5) = <<"P", "R", "O", "D", "-">>

QuantityRule(q) == 1 <= q /\ q <= 1000

PriceRule(mills) == 0 < mills /\ mills <= 1000000000

DiscountRule(kw) ==
    Supplied(kw, "discount_percent") =>
        (0 <= kw.discount_percent /\ kw.discount_percent <= 100)

ItemFieldRules(kw) ==
    /\ ProductIdRule(kw.product_id)
    /\ QuantityRule(kw.quantity)
    /\ PriceRule(kw.unit_price)
    /\ DiscountRule(kw)

\* The field rules of Order, on the keyword arguments.
OrderIdRule(v) == Len(v) = 18 /\ SubSeq(v, 1, 4) = <<"O", "R", "D", "-">>

EmailRule(v) ==
    \E i \in 1..Len(v) :
        /\ v[i] = "@"
        /\ \A j \in 1..(i - 1) : v[j] # "@"
        /\ \E k \in (i + 1)..Len(v) :
              /\ v[k] = "."
              /\ \A j \in (i + 1)..k : v[j] # "@"

ItemsRule(items) == 1 <= Len(items) /\ Len(items) <= 50

TaxRule(kw) == Supplied(kw, "tax_rate") => (0 <= kw.tax_rate /\ kw.tax_rate <= 20)

OrderFieldRules(kw) ==
    /\ OrderIdRule(kw.order_id)
    /\ EmailRule(kw.customer_email)
    /\ ItemsRule(kw.items)
    /\ TaxRule(kw)

\* The cross-field rules of OrderItem and of Order, on an instance.
FoodRule(item) == item.category = "food" => item.quantity <= 100

SubtotalRule(o) ==
    /\ 1000 <= sum_totals(o.items)
    /\ sum_totals(o.items) <= 5000000

FreeShippingRule(o) == sum_totals(o.items) >= 10000 => o.shipping_cost = 0

----------------------------------------------------------------------------
C3_AllOrNothing ==
    /\ order # None =>
          /\ CallOf("Order") /\ err = <<>> /\ pc = "idle"
          /\ OrderIdRule(order.order_id)
          /\ EmailRule(order.customer_email)
          /\ order.customer_email = strip(lower(call.kwargs.customer_email))
          /\ ItemsRule(order.items)
          /\ 0 <= order.tax_rate /\ order.tax_rate <= 20
          /\ SubtotalRule(order)
          /\ FreeShippingRule(order)
    /\ (CallOf("Order") /\ pc # "Order" /\ order = None) =>
          /\ err # <<>>
          /\ pc = "failed"
          /\ summary = None

\* The validator assigned 9.99 to the candidate, then rejected it for the
\* minimum order amount, and the caller holds no Order.
C3_Witness ==
    /\ CallOf("Order")
    /\ pc = "failed"
    /\ err = <<MinimumMsg>>
    /\ self # None
    /\ self.shipping_cost = 9990
    /\ order = None

\* C4: every accepted Order has 10 <= subtotal <= 50000, both inclusive; a
\* subtotal below 10 is rejected with the minimum-order message and one above
\* 50000 with the maximum-order message.
C4_SubtotalRange ==
    /\ order # None => SubtotalRule(order)
    /\ (CallOf("Order") /\ evaluated) =>
          LET subtotal == sum_totals(call.kwargs.items)
          IN /\ subtotal < 1000 => (order = None /\ err = <<MinimumMsg>>)
             /\ subtotal > 5000000 => (order = None /\ err = <<MaximumMsg>>)
             /\ (1000 <= subtotal /\ subtotal <= 5000000) => (order # None /\ err = <<>>)

\* The order of a single 2.99 item, rejected for the minimum order amount.
C4_Witness ==
    /\ CallOf("Order")
    /\ evaluated
    /\ sum_totals(call.kwargs.items) = 299
    /\ err = <<MinimumMsg>>
    /\ order = None

\* C6: the mode='after' validator of an Order or OrderItem is evaluated only
\* after every field rule of the call has passed: a call with a failing field
\* rule is rejected with no candidate assembled and no cross-field rule
\* evaluated.
C6_FieldsBeforeModel ==
    /\ (CallOf("OrderItem") /\ ~ItemFieldRules(call.kwargs)) =>
          (~evaluated /\ pc = "failed" /\ self = None /\ err # <<>>)
    /\ (CallOf("Order") /\ ~OrderFieldRules(call.kwargs)) =>
          (~evaluated /\ pc = "failed" /\ self = None /\ err # <<>> /\ order = None)

\* An Order call rejected by the email rule alone, no model validator run.
C6_Witness ==
    /\ CallOf("Order")
    /\ pc = "failed"
    /\ ~evaluated
    /\ err = <<EmailMsg>>
    /\ self = None

\* C7: every accepted OrderItem has 1 <= quantity <= 1000, and <= 100 when
\* its category is food; with the other fields valid a call is accepted
\* exactly when its quantity meets both, and a food quantity in 101..1000 is
\* rejected by the cross-field rule.
C7_Quantity ==
    /\ \A i \in DOMAIN cart : QuantityRule(cart[i].quantity) /\ FoodRule(cart[i])
    /\ (/\ CallOf("OrderItem")
        /\ pc # "OrderItem"
        /\ ProductIdRule(call.kwargs.product_id)
        /\ PriceRule(call.kwargs.unit_price)
        /\ DiscountRule(call.kwargs)) =>
          LET kw       == call.kwargs
              accepted == /\ pc = "idle"
                          /\ err = <<>>
                          /\ cart # <<>>
                          /\ cart[Len(cart)].quantity = kw.quantity
                          /\ cart[Len(cart)].category = kw.category
          IN /\ accepted <=> (QuantityRule(kw.quantity) /\ FoodRule(kw))
             /\ (QuantityRule(kw.quantity) /\ ~FoodRule(kw)) =>
                   (evaluated /\ err = <<FoodMsg>>)

\* A food item of quantity 150, rejected by validate_food_expiry.
C7_Witness ==
    /\ CallOf("OrderItem")
    /\ call.kwargs.category = "food"
    /\ call.kwargs.quantity = 150
    /\ evaluated
    /\ err = <<FoodMsg>>

\* C8: get_order_summary returns subtotal = the sum of the per-item rounded
\* totals (not rounded again), tax = round2(subtotal * tax_rate), shipping =
\* the order's shipping_cost, total = round2(subtotal + tax + shipping); the
\* items {1, 999.99, 10%} and {2, 29.99, 5%} at 0.08 give 956.97, 0, 76.56
\* and 1033.53.
C8_Summary ==
    summary # None =>
        /\ summary.subtotal = SumOfItemTotals(order.items)
        /\ IsNearest(summary.tax, summary.subtotal * order.tax_rate, 100)
        /\ summary.shipping = order.shipping_cost
        /\ IsNearest(summary.total,
                     10 * summary.subtotal + 10 * summary.tax + summary.shipping, 10)
        /\ (/\ Len(order.items) = 2
            /\ order.items[1].quantity = 1
            /\ order.items[1].unit_price = 99999
            /\ order.items[1].discount_percent = 10
            /\ order.items[2].quantity = 2
            /\ order.items[2].unit_price = 2999
            /\ order.items[2].discount_percent = 5
            /\ order.tax_rate = 8) =>
              /\ calculate_total(order.items[1]) = 89999
              /\ calculate_total(order.items[2]) = 5698
              /\ summary.subtotal = 95697
              /\ summary.shipping = 0
              /\ summary.tax = 7656
              /\ summary.total = 103353

\* The summary of the example order.
C8_Witness ==
    /\ summary # None
    /\ Len(order.items) = 2
    /\ order.items[1].unit_price = 99999
    /\ order.items[2].unit_price = 2999
    /\ summary.subtotal = 95697
    /\ summary.tax = 7656
    /\ summary.total = 103353

\* C9: get_order_summary is a pure, idempotent read: a call changes no field
\* of the Order or of its items, and consecutive calls return identical
\* summaries.
C9_PureSummary ==
    /\ [][(summary' # summary \/ prev_summary' # prev_summary) =>
             (order' = order /\ cart' = cart /\ address' = address)]_vars
    /\ [](prev_summary # None => summary = prev_summary)

\* Two consecutive calls have returned, with a shipping_cost that is not 0.
C9_Witness ==
    /\ prev_summary # None
    /\ summary = prev_summary
    /\ order.shipping_cost # 0

----------------------------------------------------------------------------
\* Claims the code does not meet.

\* C2: the US ZIP shape check is applied exactly when the country of the same
\* input is "USA" (supplied or defaulted); when the supplied country is not
\* "USA" construction never fails on the ZIP shape.
C2_ZipDependsOnCountry ==
    CallOf("ShippingAddress") =>
        LET kw      == call.kwargs
            country == IF Supplied(kw, "country") THEN kw.country ELSE "USA"
            zipErr  == \E i \in DOMAIN err : err[i] = ZipMsg
        IN /\ country # "USA" => ~zipErr
           /\ (country = "USA" /\ Len(kw.zip_code) \notin {5, 10}) => zipErr

\* C5: with country "USA" (and a valid state) ShippingAddress construction
\* accepts a zip_code if and only if it is five digits, or five digits, a
\* hyphen and four digits.
C5_UsZipShape ==
    CallOf("ShippingAddress") =>
        LET kw       == call.kwargs
            v        == kw.zip_code
            country  == IF Supplied(kw, "country") THEN kw.country ELSE "USA"
            stateOk  == Len(kw.state) = 2 /\ \A i \in 1..2 : kw.state[i] \in AlphaChars
            accepted == /\ err = <<>>
                        /\ address # None
                        /\ address.zip_code = v
            five     == Len(v) = 5 /\ \A i \in 1..5 : v[i] \in DigitChars
            nine     == /\ Len(v) = 10
                        /\ v[6] = "-"
                        /\ \A i \in (1..5) \cup (7..10) : v[i] \in DigitChars
        IN (country = "USA" /\ stateOk) => (accepted <=> (five \/ nine))

\* C10: every accepted Order has shipping_cost >= 0, so the total of its
\* summary is never less than the subtotal.
C10_ShippingNonNegative ==
    /\ order # None => order.shipping_cost >= 0
    /\ summary # None => summary.total >= summary.subtotal

====
